---- MODULE Spec2Model ----
(***************************************************************************)
(* Model of app.py of the slot-game LINE bot: the two lookups              *)
(* (search_game, search_by_feature) over the two loaded data frames and    *)
(* the three description extractors (analyze_game_features,                *)
(* summarize_game, advanced_analyze_game).                                 *)
(*                                                                         *)
(* Text is a sequence of one-character strings, so that substring and      *)
(* regular-expression matching are computed, not assumed.  A reply is kept *)
(* in the structured form it has right before the final "\n".join: the     *)
(* labels are written in ASCII (the source's labels are Chinese, they are  *)
(* quoted in the comments by their meaning).                               *)
(***************************************************************************)
EXTENDS Integers, Sequences, FiniteSets, TLC

VARIABLES bigwinboard_df, demoslot_df, called, args, ret, consulted

vars == <<bigwinboard_df, demoslot_df, called, args, ret, consulted>>

---------------------------------------------------------------------------
(* Characters and strings                                                  *)

UpperChars == <<"A","B","C","D","E","F","G","H","I","J","K","L","M",
                "N","O","P","Q","R","S","T","U","V","W","X","Y","Z">>
LowerChars == <<"a","b","c","d","e","f","g","h","i","j","k","l","m",
                "n","o","p","q","r","s","t","u","v","w","x","y","z">>
Digits == {"0","1","2","3","4","5","6","7","8","9"}

Range(f) == {f[i] : i \in DOMAIN f}

IsUpper(c) == c \in Range(UpperChars)
IsDigit(c) == c \in Digits
\* \s of the re module
IsSpace(c) == c \in {" ", "\n", "\t", "\r"}
\* \w of the re module
IsWordChar(c) == c \in Range(UpperChars) \cup Range(LowerChars) \cup Digits \cup {"_"}

\* str.lower(), one character
LowerChar(c) ==
  IF IsUpper(c) THEN LowerChars[CHOOSE i \in DOMAIN UpperChars : UpperChars[i] = c]
  ELSE c

\* str.lower()
Lower(s) == [i \in 1..Len(s) |-> LowerChar(s[i])]

\* s[i:i+len(pat)] == pat, i counted from 1
StartsAt(pat, s, i) ==
  /\ i >= 1
  /\ i + Len(pat) - 1 <= Len(s)
  /\ \A k \in 1..Len(pat) : s[i + k - 1] = pat[k]

\* pat in s
Contains(pat, s) == \E i \in 1..(Len(s) - Len(pat) + 1) : StartsAt(pat, s, i)

\* the last index of the longest run of digits of s that starts at i
\* (i - 1 when s[i] is no digit or i is past the end)
DigitRunEnd(s, i) ==
  CHOOSE j \in (i-1)..Len(s) :
    /\ \A k \in i..j : IsDigit(s[k])
    /\ j = Len(s) \/ ~IsDigit(s[j+1])

\* the same for a run of blanks
SpaceRunEnd(s, i) ==
  CHOOSE j \in (i-1)..Len(s) :
    /\ \A k \in i..j : IsSpace(s[k])
    /\ j = Len(s) \/ ~IsSpace(s[j+1])

\* \b after the word character s[k]
BoundaryAfter(s, k) == k = Len(s) \/ ~IsWordChar(s[k+1])
\* \b before the word character s[i]
BoundaryBefore(s, i) == i = 1 \/ ~IsWordChar(s[i-1])

---------------------------------------------------------------------------
(* The patterns of the three extractors                                    *)

W_cluster_pays == <<"c","l","u","s","t","e","r"," ","p","a","y","s">>
W_megaways == <<"m","e","g","a","w","a","y","s">>
W_ways_to_win == <<"w","a","y","s"," ","t","o"," ","w","i","n">>
W_tumble == <<"t","u","m","b","l","e">>
W_cascade == <<"c","a","s","c","a","d","e">>
W_expanding_symbol == <<"e","x","p","a","n","d","i","n","g"," ","s","y","m","b","o","l">>
W_sticky == <<"s","t","i","c","k","y">>
W_walking_wild == <<"w","a","l","k","i","n","g"," ","w","i","l","d">>
W_free_spin == <<"f","r","e","e"," ","s","p","i","n">>
W_multiplier == <<"m","u","l","t","i","p","l","i","e","r">>
W_bonus_buy == <<"b","o","n","u","s"," ","b","u","y">>
W_buy_feature == <<"b","u","y"," ","f","e","a","t","u","r","e">>
W_jackpot == <<"j","a","c","k","p","o","t">>
W_wild_transformation == <<"w","i","l","d"," ","t","r","a","n","s","f","o","r","m","a","t","i","o","n">>
W_free_spins == <<"f","r","e","e"," ","s","p","i","n","s">>
W_symbol_to_wild == <<"s","y","m","b","o","l"," ","t","o"," ","w","i","l","d">>
W_mystery_symbol == <<"m","y","s","t","e","r","y"," ","s","y","m","b","o","l">>
W_payline == <<"p","a","y","l","i","n","e">>
W_scatter == <<"s","c","a","t","t","e","r">>
W_bonus_round == <<"b","o","n","u","s"," ","r","o","u","n","d">>
W_sticky_wild == <<"s","t","i","c","k","y"," ","w","i","l","d">>
W_expanding_wild == <<"e","x","p","a","n","d","i","n","g"," ","w","i","l","d">>
W_orb_bonus == <<"o","r","b"," ","b","o","n","u","s">>
W_super_bonus == <<"s","u","p","e","r"," ","b","o","n","u","s">>
W_hold_and_win == <<"h","o","l","d"," ","a","n","d"," ","w","i","n">>
W_reel == <<"r","e","e","l">>
W_row == <<"r","o","w">>
W_paylines20 == <<"2","0"," ","p","a","y","l","i","n","e">>
\* the pattern texts of GAME_FEATURE_RULES that hold regex operators
W_re_grid == <<"\\","d","+","\\","s","*","x","\\","s","*","\\","d","+">>
W_re_reels == <<"\\","d","+","\\","s","*","r","e","e","l","s","?">>
W_re_rows == <<"\\","d","+","\\","s","*","r","o","w","s","?">>
W_re_free_spins == <<"f","r","e","e"," ","s","p","i","n","s","?">>

\* re.match(r"\d+x\d+", s[i-1:]): a digit run is followed by "x" and a digit
GridAt(s, i) ==
  /\ i <= Len(s)
  /\ IsDigit(s[i])
  /\ LET a == DigitRunEnd(s, i)
     IN  /\ a + 2 <= Len(s)
         /\ s[a+1] = "x"
         /\ IsDigit(s[a+2])

\* re.search(r"\d+x\d+", s) is not None
GridSearch(s) == \E i \in 1..Len(s) : GridAt(s, i)

\* re.search(r"\d+x\d+", s).group(): leftmost start, both digit runs greedy
GridGroup(s) ==
  LET i == CHOOSE k \in 1..Len(s) : GridAt(s, k) /\ \A m \in 1..(k-1) : ~GridAt(s, m)
      a == DigitRunEnd(s, i)
      b == DigitRunEnd(s, a + 2)
  IN  SubSeq(s, i, b)

\* re.search(r"\d+\s*x\s*\d+", s) is not None
GridSpacedSearch(s) ==
  \E i \in 1..Len(s) :
    /\ IsDigit(s[i])
    /\ LET a == DigitRunEnd(s, i)
           b == SpaceRunEnd(s, a + 1)
       IN  /\ b + 1 <= Len(s)
           /\ s[b+1] = "x"
           /\ LET c == SpaceRunEnd(s, b + 2)
              IN  c + 1 <= Len(s) /\ IsDigit(s[c+1])

\* re.search(r"\d+\s*" + word, s) is not None, word a literal
\* (the trailing "s?" of reels? and rows? never decides a search)
DigitsThenWord(word, s) ==
  \E i \in 1..Len(s) :
    /\ IsDigit(s[i])
    /\ LET a == DigitRunEnd(s, i)
           b == SpaceRunEnd(s, a + 1)
       IN  StartsAt(word, s, b + 1)

\* re.search(r"\b5[- ]reels?\b", s) is not None
FiveReelsSearch(s) ==
  \E i \in 1..Len(s) :
    /\ s[i] = "5"
    /\ BoundaryBefore(s, i)
    /\ i + 1 <= Len(s)
    /\ s[i+1] \in {"-", " "}
    /\ StartsAt(W_reel, s, i + 2)
    /\ \/ BoundaryAfter(s, i + 5)
       \/ /\ i + 6 <= Len(s)
          /\ s[i+6] = "s"
          /\ BoundaryAfter(s, i + 6)

\* re.search(r"\b20 paylines?\b", s) is not None
TwentyPaylinesSearch(s) ==
  \E i \in 1..Len(s) :
    /\ StartsAt(W_paylines20, s, i)
    /\ BoundaryBefore(s, i)
    /\ \/ BoundaryAfter(s, i + 9)
       \/ /\ i + 10 <= Len(s)
          /\ s[i+10] = "s"
          /\ BoundaryAfter(s, i + 10)

---------------------------------------------------------------------------
(* analyze_game_features                                                   *)

\* one entry of a category's list: a fixed label, or the grid label with the
\* matched text embedded
Item(label, text) == [label |-> label, text |-> text]

If(cond, item) == IF cond THEN <<item>> ELSE <<>>

\* lines 53-61: the list of the basic-layout category
BasicItems(desc) ==
     (IF GridSearch(desc) THEN << Item("grid", GridGroup(desc)) >> ELSE <<>>)
  \o If(Contains(W_cluster_pays, desc), Item("Cluster Pays", <<>>))
  \o If(Contains(W_megaways, desc), Item("Megaways", <<>>))
  \o If(Contains(W_ways_to_win, desc), Item("multi-way win", <<>>))

\* lines 63-70: the list of the win-mechanics category
MechanicsItems(desc) ==
     If(Contains(W_tumble, desc) \/ Contains(W_cascade, desc), Item("tumble/cascade", <<>>))
  \o If(Contains(W_expanding_symbol, desc), Item("expanding symbol", <<>>))
  \o If(Contains(W_sticky, desc), Item("sticky symbol", <<>>))
  \o If(Contains(W_walking_wild, desc), Item("walking wild", <<>>))

\* lines 72-79: the list of the bonus-features category
FunctionItems(desc) ==
     If(Contains(W_free_spin, desc), Item("free spins", <<>>))
  \o If(Contains(W_multiplier, desc), Item("multiplier", <<>>))
  \o If(Contains(W_bonus_buy, desc) \/ Contains(W_buy_feature, desc), Item("buy feature", <<>>))
  \o If(Contains(W_jackpot, desc), Item("jackpot", <<>>))

\* the features dict, in insertion order
Features(basic, mechanics, functions) ==
  << [section |-> "basic layout", items |-> basic],
     [section |-> "win mechanics", items |-> mechanics],
     [section |-> "bonus features", items |-> functions] >>

KeepAllSections(sections) == sections

\* for section, items in features.items(): if items: summary.append(...)
NonEmptySections(sections) == SelectSeq(sections, LAMBDA sec : sec.items # <<>>)

\* the joined summary, or the could-not-parse sentinel
RenderFeatures(features) ==
  LET summary == NonEmptySections(features)
  IN  IF summary # <<>>
      THEN [kind |-> "summary", sections |-> summary]
      ELSE [kind |-> "sentinel", sections |-> <<>>]

FirstOnly(items) == IF items = <<>> THEN <<>> ELSE << items[1] >>

analyze_game_features_first_match(description) ==
  LET desc == Lower(description)
  IN  RenderFeatures(Features(FirstOnly(BasicItems(desc)), FirstOnly(MechanicsItems(desc)),
                              FirstOnly(FunctionItems(desc))))

analyze_game_features(description) ==
  LET desc == Lower(description)
  IN  RenderFeatures(Features(BasicItems(desc), MechanicsItems(desc), FunctionItems(desc)))

---------------------------------------------------------------------------
(* summarize_game                                                          *)

summarize_game(description) ==
  LET desc == Lower(description)
      summary_parts ==
           If(FiveReelsSearch(desc), "5 reels")
        \o If(TwentyPaylinesSearch(desc), "20 paylines")
        \o If(Contains(W_cluster_pays, desc), "cluster pays")
        \o If(Contains(W_megaways, desc), "megaways")
        \o If(Contains(W_wild_transformation, desc), "wild transformation")
        \o If(Contains(W_free_spins, desc), "free spins")
        \o If(Contains(W_symbol_to_wild, desc), "symbol to wild")
        \o If(Contains(W_multiplier, desc), "multiplier")
        \o If(Contains(W_mystery_symbol, desc), "mystery symbol")
        \o If(Contains(W_buy_feature, desc) \/ Contains(W_bonus_buy, desc), "buy feature")
  IN  IF summary_parts # <<>>
      THEN [kind |-> "summary", parts |-> summary_parts]
      ELSE [kind |-> "sentinel", parts |-> <<>>]

---------------------------------------------------------------------------
(* advanced_analyze_game                                                   *)

\* a pattern of the table: its text, and how re.search reads it
Pat(text, re) == [text |-> text, re |-> re]
Lit(text) == Pat(text, "literal")

GAME_FEATURE_RULES == <<
  [category |-> "basic grid",
   patterns |-> << Pat(W_re_grid, "grid"), Pat(W_re_reels, "reels"), Pat(W_re_rows, "rows") >>],
  [category |-> "pay style",
   patterns |-> << Lit(W_cluster_pays), Lit(W_megaways), Lit(W_ways_to_win), Lit(W_payline) >>],
  [category |-> "free games",
   patterns |-> << Pat(W_re_free_spins, "free spins"), Lit(W_scatter), Lit(W_bonus_round) >>],
  [category |-> "wild traits",
   patterns |-> << Lit(W_wild_transformation), Lit(W_walking_wild), Lit(W_sticky_wild),
                   Lit(W_expanding_wild) >>],
  [category |-> "special features",
   patterns |-> << Lit(W_buy_feature), Lit(W_bonus_buy), Lit(W_orb_bonus), Lit(W_super_bonus),
                   Lit(W_hold_and_win) >>] >>

\* re.search(pattern, desc) is not None
ReSearch(pattern, desc) ==
  CASE pattern.re = "grid" -> GridSpacedSearch(desc)
    [] pattern.re = "reels" -> DigitsThenWord(W_reel, desc)
    [] pattern.re = "rows" -> DigitsThenWord(W_row, desc)
    [] pattern.re = "free spins" -> Contains(W_free_spin, desc)
    [] OTHER -> Contains(pattern.text, desc)

\* the inner loop over one category's patterns, from pattern k on: the line of
\* the first pattern that is in desc or is found by re.search, then break
RECURSIVE ScanPatternsNoBreak(_, _, _, _)
ScanPatternsNoBreak(category, patterns, k, desc) ==
  IF k > Len(patterns) THEN <<>>
  ELSE (IF Contains(patterns[k].text, desc)
        THEN << [category |-> category, how |-> "contains", pattern |-> patterns[k].text] >>
        ELSE IF ReSearch(patterns[k], desc)
        THEN << [category |-> category, how |-> "matches", pattern |-> patterns[k].text] >>
        ELSE <<>>) \o ScanPatternsNoBreak(category, patterns, k + 1, desc)

RECURSIVE ScanPatterns(_, _, _, _)
ScanPatterns(category, patterns, k, desc) ==
  IF k > Len(patterns) THEN <<>>
  ELSE IF Contains(patterns[k].text, desc)
       THEN << [category |-> category, how |-> "contains", pattern |-> patterns[k].text] >>
  ELSE IF ReSearch(patterns[k], desc)
       THEN << [category |-> category, how |-> "matches", pattern |-> patterns[k].text] >>
  ELSE ScanPatterns(category, patterns, k + 1, desc)

RECURSIVE ScanCategories(_, _)
ScanCategories(c, desc) ==
  IF c > Len(GAME_FEATURE_RULES) THEN <<>>
  ELSE ScanPatterns(GAME_FEATURE_RULES[c].category, GAME_FEATURE_RULES[c].patterns, 1, desc)
       \o ScanCategories(c + 1, desc)

advanced_analyze_game(description) ==
  LET desc == Lower(description)
      features == ScanCategories(1, desc)
  IN  IF features # <<>>
      THEN [kind |-> "analysis", lines |-> features]
      ELSE [kind |-> "sentinel", lines |-> <<>>]

---------------------------------------------------------------------------
(* Data frames and rows                                                    *)

\* a null cell (float nan), and the None that row.get gives for an absent key
NaN == << "NaN" >>
None == << "None" >>

W_nan == <<"n","a","n">>
W_NA == <<"N","/","A">>
W_unknown_game == << "unknown game" >>
W_no_image == << "(no image)" >>

\* str(v), also what an f-string and astype(str) make of a cell
Str(v) == IF v = NaN THEN W_nan ELSE v

\* row.get(key, default)
Get(row, key, default) == IF key \in DOMAIN row THEN row[key] ELSE default

\* bool(v): nan is truthy, None and "" are falsy
Truthy(v) == v # None /\ v # <<>>

\* a or b
Or(a, b) == IF Truthy(a) THEN a ELSE b

\* pd.notna(value)
NotNa(v) == v # NaN /\ v # None

STAT_FIELDS == <<
  [key |-> "Reels", label |-> "Reels"],
  [key |-> "Rows", label |-> "Rows"],
  [key |-> "Paylines", label |-> "Paylines"],
  [key |-> "Hit Frequency", label |-> "Hit Freq"],
  [key |-> "Free Spins Frequency", label |-> "Free Spins Freq"],
  [key |-> "Max Win", label |-> "Max Win"],
  [key |-> "Max Win Probability", label |-> "Max Win Probability"],
  [key |-> "Volatility", label |-> "Volatility"],
  [key |-> "Min/Max Bet", label |-> "Min/Max Bet"],
  [key |-> "Release Date", label |-> "Release Date"] >>

RECURSIVE StatLines(_, _)
StatLines(row, k) ==
  IF k > Len(STAT_FIELDS) THEN <<>>
  ELSE LET value == Get(row, STAT_FIELDS[k].key, None)
       IN  (IF NotNa(value) THEN << [label |-> STAT_FIELDS[k].label, value |-> value] >>
            ELSE <<>>) \o StatLines(row, k + 1)

format_game_stats(row) == StatLines(row, 1)

\* df.head(n)
DfHead(rows, n) ==
  IF n >= 0 THEN SubSeq(rows, 1, IF n < Len(rows) THEN n ELSE Len(rows))
  ELSE SubSeq(rows, 1, IF Len(rows) + n > 0 THEN Len(rows) + n ELSE 0)

\* pd.concat([a, b], ignore_index=True): the union of the columns, a cell of
\* a column the row's frame does not have is nan
Widen(row, columns) == [c \in columns |-> IF c \in DOMAIN row THEN row[c] ELSE NaN]

Concat(a, b) ==
  LET columns == a.columns \cup b.columns
  IN  [columns |-> columns,
       rows |-> [i \in 1..Len(a.rows) |-> Widen(a.rows[i], columns)]
                \o [i \in 1..Len(b.rows) |-> Widen(b.rows[i], columns)]]

---------------------------------------------------------------------------
(* Series.str.contains(keyword, case=False, na=False), regex=True          *)

\* The keywords of the model are written with KeywordChars.  Among these
\* "." and "(" are operators of the re module: "." stands for any character
\* but a newline, and a "(" that no ")" closes makes re.compile raise
\* re.error; every other character stands for itself.
KeywordChars == {"a", "B", ".", "("}

\* re.compile(keyword, re.IGNORECASE) succeeds
ReCompiles(keyword) == \A k \in 1..Len(keyword) : keyword[k] # "("

\* the compiled keyword matches s at i
ReMatchAt(keyword, s, i) ==
  /\ i + Len(keyword) - 1 <= Len(s)
  /\ \A k \in 1..Len(keyword) :
       IF keyword[k] = "." THEN s[i + k - 1] # "\n"
       ELSE LowerChar(s[i + k - 1]) = LowerChar(keyword[k])

\* regex.search(s) is not None
ReSearchKeyword(keyword, s) == \E i \in 1..(Len(s) + 1) : ReMatchAt(keyword, s, i)

\* df[df[column].astype(str).str.contains(keyword, case=False, na=False)]:
\* the rows kept, or the exception of the compilation
StrContainsFilter(df, column, keyword) ==
  IF ~ReCompiles(keyword) THEN [kind |-> "raise", rows |-> <<>>]
  ELSE [kind |-> "ok",
        rows |-> SelectSeq(df.rows, LAMBDA row : ReSearchKeyword(keyword, Str(row[column])))]

---------------------------------------------------------------------------
(* search_game                                                             *)

DescLimit == 200

\* str.strip()
Strip(s) ==
  IF \A i \in 1..Len(s) : IsSpace(s[i]) THEN <<>>
  ELSE LET a == CHOOSE i \in 1..Len(s) : ~IsSpace(s[i]) /\ \A k \in 1..(i-1) : IsSpace(s[k])
           b == CHOOSE i \in 1..Len(s) : ~IsSpace(s[i]) /\ \A k \in (i+1)..Len(s) : IsSpace(s[k])
       IN  SubSeq(s, a, b)

\* s.replace("\n", " ")
ReplaceNewlines(s) == [i \in 1..Len(s) |-> IF s[i] = "\n" THEN " " ELSE s[i]]

ShortDesc(desc) ==
  IF Len(desc) > DescLimit
  THEN ReplaceNewlines(Strip(SubSeq(desc, 1, DescLimit))) \o <<".", ".", ".">>
  ELSE Strip(desc)

\* the description the loop body reads from a row
RowDesc(row) == Get(row, "Description", Get(row, "description", <<>>))

\* the name the loop body reads from a row
RowName(row) == Get(row, "Title", Get(row, "game_name", W_unknown_game))

RowUrl(row) == Get(row, "URL", Get(row, "url", <<>>))

\* one pass of the loop body; len(desc) raises TypeError on a float
RowRaises(row) == RowDesc(row) = NaN

Message(row) ==
  LET desc == RowDesc(row)
  IN  [name |-> Str(RowName(row)),
       rtp |-> Str(Get(row, "RTP", W_NA)),
       url |-> Str(RowUrl(row)),
       short_desc |-> ShortDesc(desc),
       game_summary |-> summarize_game(desc),
       feature_summary |-> analyze_game_features(desc),
       advanced_features |-> advanced_analyze_game(desc),
       stat_block |-> format_game_stats(row),
       img |-> Str(Get(row, "Image", Get(row, "image_url", W_no_image)))]

\* the frames the call filtered, in order
Consulted(keyword) ==
  LET primary == StrContainsFilter(bigwinboard_df, "Title", keyword)
  IN  IF primary.kind = "ok" /\ primary.rows = <<>> THEN << "bigwinboard", "demoslot" >>
      ELSE << "bigwinboard" >>

search_game(keyword, max_results) ==
  LET primary == StrContainsFilter(bigwinboard_df, "Title", keyword)
      result ==
        IF primary.kind = "ok" /\ primary.rows = <<>>
        THEN StrContainsFilter(demoslot_df, "game_name", keyword)
        ELSE primary
      head == DfHead(result.rows, max_results)
  IN  IF result.kind = "raise" THEN [kind |-> "raise", exc |-> "re.error", messages |-> <<>>]
      ELSE IF result.rows = <<>> THEN [kind |-> "not_found", exc |-> "", messages |-> <<>>]
      ELSE IF \E i \in 1..Len(head) : RowRaises(head[i])
           THEN [kind |-> "raise", exc |-> "TypeError", messages |-> <<>>]
      ELSE [kind |-> "reply", exc |-> "",
            messages |-> [i \in 1..Len(head) |-> Message(head[i])]]

---------------------------------------------------------------------------
(* search_by_feature                                                       *)

FeatureCap == 10

\* the description the loop body matches on
FeatureDesc(row) ==
  Lower(Str(Or(Get(row, "Description", None), Or(Get(row, "description", None), <<>>))))

\* the loop over the merged rows from row i on, results being the entries so far
RECURSIVE FeatureLoop(_, _, _, _)
FeatureLoop(rows, i, keyword, results) ==
  IF i > Len(rows) THEN results
  ELSE LET row == rows[i]
           appended ==
             IF Contains(keyword, FeatureDesc(row))
             THEN Append(results, [name |-> Str(RowName(row)), url |-> Str(RowUrl(row))])
             ELSE results
       IN  IF Len(appended) >= FeatureCap THEN appended
           ELSE FeatureLoop(rows, i + 1, keyword, appended)

search_by_feature(keyword) ==
  LET combined_df == Concat(bigwinboard_df, demoslot_df)
      results == FeatureLoop(combined_df.rows, 1, Lower(keyword), <<>>)
  IN  IF results # <<>> THEN [kind |-> "reply", exc |-> "", messages |-> results]
      ELSE [kind |-> "not_found", exc |-> "", messages |-> <<>>]

---------------------------------------------------------------------------
(* The loaded frames, the keywords and the descriptions of the model       *)

MaxRows == 2
LargeRows == 6
MaxKeywordLen == 2
MaxResults == 3
MaxTokens == 3

SeqsUpTo(S, n) == UNION { [1..k -> S] : k \in 0..n }

RECURSIVE Rep(_, _)
Rep(s, n) == IF n = 0 THEN <<>> ELSE s \o Rep(s, n - 1)

\* a description longer than the display limit, lines ending in newlines
LongDesc == Rep(<<"M","e","g","a","w","a","y","s","\n">>, DescLimit \div 9 + 1)

PrimaryColumns == {"Title", "RTP", "URL", "Description", "Volatility"}

\* rows a bigwinboard csv can hold; an empty csv cell is read as nan
PrimaryCatalogue == <<
  [Title |-> <<"A","b">>, RTP |-> <<"9","6">>, URL |-> <<"p","1">>,
   Description |-> <<"B","o","n","u","s"," ","b","u","y"," ","(","5","x","3",")">>, Volatility |-> <<"H","i","g","h">>],
  [Title |-> <<"b","a">>, RTP |-> NaN, URL |-> <<"p","2">>,
   Description |-> NaN, Volatility |-> NaN],
  [Title |-> NaN, RTP |-> <<"9","5">>, URL |-> <<"p","3">>,
   Description |-> LongDesc, Volatility |-> <<"L","o","w">>] >>

SecondaryColumns == {"game_name", "url", "description"}

\* rows a demoslot csv can hold
SecondaryCatalogue == <<
  [game_name |-> <<"B","a","a">>, url |-> <<"s","1">>, description |-> <<" ","B","u","y"," ","f","e","a","t","u","r","e","\n">>],
  [game_name |-> <<"a",".">>, url |-> <<"s","2">>, description |-> NaN] >>

\* the row without the cells of the columns the csv does not have
Restrict(row, columns) == [c \in columns |-> row[c]]

\* the catalogue repeated up to n rows
Cycle(catalogue, n) == [i \in 1..n |-> catalogue[((i - 1) % Len(catalogue)) + 1]]

Frames(catalogue, columns) ==
  { [columns |-> columns, rows |-> [i \in DOMAIN r |-> Restrict(r[i], columns)]] :
      r \in SeqsUpTo(Range(catalogue), MaxRows) \cup {Cycle(catalogue, LargeRows)} }

PrimaryFrames == Frames(PrimaryCatalogue, PrimaryColumns)

\* a demoslot csv with and without a description column
SecondaryFrames ==
  Frames(SecondaryCatalogue, SecondaryColumns)
    \cup Frames(SecondaryCatalogue, SecondaryColumns \ {"description"})

Keywords == SeqsUpTo(KeywordChars, MaxKeywordLen)

DescTokens == {
  <<"M","e","g","a","W","a","y","s">>,
  <<"w","a","y","s"," ","t","o"," ","w","i","n">>,
  <<"5","x","3">>,
  <<"5"," ","r","e","e","l","s">>,
  <<"F","r","e","e"," ","S","p","i","n">>,
  <<"b","u","y"," ","f","e","a","t","u","r","e">>,
  <<"s","t","i","c","k","y"," ","w","i","l","d">>,
  <<"s">>, <<" ">>, <<"?">> }

RECURSIVE Concats(_)
Concats(n) ==
  IF n = 0 THEN { <<>> }
  ELSE LET shorter == Concats(n - 1)
       IN  shorter \cup { d \o tok : d \in shorter, tok \in DescTokens }

Descriptions == Concats(MaxTokens)

---------------------------------------------------------------------------
(* The requests                                                            *)

NoArgs == [keyword |-> <<>>, max_results |-> 0, description |-> <<>>]
NoRet == [kind |-> "none"]

Init ==
  /\ bigwinboard_df \in PrimaryFrames
  /\ demoslot_df \in SecondaryFrames
  /\ called = "idle"
  /\ args = NoArgs
  /\ ret = NoRet
  /\ consulted = <<>>

SearchGame ==
  /\ called = "idle"
  /\ \E keyword \in Keywords, max_results \in 0..MaxResults :
       /\ called' = "search_game"
       /\ args' = [NoArgs EXCEPT !.keyword = keyword, !.max_results = max_results]
       /\ ret' = search_game(keyword, max_results)
       /\ consulted' = Consulted(keyword)
  /\ UNCHANGED <<bigwinboard_df, demoslot_df>>

SearchByFeature ==
  /\ called = "idle"
  /\ \E keyword \in Keywords :
       /\ called' = "search_by_feature"
       /\ args' = [NoArgs EXCEPT !.keyword = keyword]
       /\ ret' = search_by_feature(keyword)
       /\ consulted' = << "combined" >>
  /\ UNCHANGED <<bigwinboard_df, demoslot_df>>

\* the reply is handed to reply_message, or the exception leaves the handler
Done ==
  /\ called # "idle"
  /\ called' = "idle"
  /\ args' = NoArgs
  /\ ret' = NoRet
  /\ consulted' = <<>>
  /\ UNCHANGED <<bigwinboard_df, demoslot_df>>

Next == SearchGame \/ SearchByFeature \/ Done

Spec == Init /\ [][Next]_vars

---------------------------------------------------------------------------
(* The extractors on their own                                             *)

InitExtract ==
  /\ bigwinboard_df = [columns |-> PrimaryColumns, rows |-> <<>>]
  /\ demoslot_df = [columns |-> SecondaryColumns, rows |-> <<>>]
  /\ called = "idle"
  /\ args \in { [NoArgs EXCEPT !.description = d] : d \in Descriptions }
  /\ ret = NoRet
  /\ consulted = <<>>

AnalyzeGameFeatures ==
  /\ called' = "analyze_game_features"
  /\ ret' = analyze_game_features(args.description)
  /\ UNCHANGED <<bigwinboard_df, demoslot_df, args, consulted>>

SummarizeGame ==
  /\ called' = "summarize_game"
  /\ ret' = summarize_game(args.description)
  /\ UNCHANGED <<bigwinboard_df, demoslot_df, args, consulted>>

AdvancedAnalyzeGame ==
  /\ called' = "advanced_analyze_game"
  /\ ret' = advanced_analyze_game(args.description)
  /\ UNCHANGED <<bigwinboard_df, demoslot_df, args, consulted>>

NextExtract == AnalyzeGameFeatures \/ SummarizeGame \/ AdvancedAnalyzeGame

SpecExtract == InitExtract /\ [][NextExtract]_vars

---------------------------------------------------------------------------
(* The rule table of analyze_game_features, written out: one rule        *)
(* per if statement, a rule fires when one of its patterns occurs          *)

Rule(section, label, kind, alts) ==
  [section |-> section, label |-> label, kind |-> kind, alts |-> alts]

FeatureRuleTable == <<
  Rule("basic layout", "grid", "digits x digits", {}),
  Rule("basic layout", "Cluster Pays", "literal", {W_cluster_pays}),
  Rule("basic layout", "Megaways", "literal", {W_megaways}),
  Rule("basic layout", "multi-way win", "literal", {W_ways_to_win}),
  Rule("win mechanics", "tumble/cascade", "literal", {W_tumble, W_cascade}),
  Rule("win mechanics", "expanding symbol", "literal", {W_expanding_symbol}),
  Rule("win mechanics", "sticky symbol", "literal", {W_sticky}),
  Rule("win mechanics", "walking wild", "literal", {W_walking_wild}),
  Rule("bonus features", "free spins", "literal", {W_free_spin}),
  Rule("bonus features", "multiplier", "literal", {W_multiplier}),
  Rule("bonus features", "buy feature", "literal", {W_bonus_buy, W_buy_feature}),
  Rule("bonus features", "jackpot", "literal", {W_jackpot}) >>

SectionOrder == << "basic layout", "win mechanics", "bonus features" >>

\* a digit, an "x" and a digit side by side somewhere in s
OccursGrid(s) ==
  \E i \in 1..(Len(s) - 2) : IsDigit(s[i]) /\ s[i+1] = "x" /\ IsDigit(s[i+2])

RuleFires(r, desc) ==
  IF r.kind = "digits x digits" THEN OccursGrid(desc)
  ELSE \E w \in r.alts : Contains(w, desc)

\* the labels listed under a section of a summary (none when it is left out)
LabelsOf(summary, section) ==
  UNION { { summary.sections[i].items[j].label : j \in 1..Len(summary.sections[i].items) } :
            i \in { n \in DOMAIN summary.sections : summary.sections[n].section = section } }

\* C6: in analyze_game_features every rule is judged on its own: its label is
\* listed under its category exactly when its pattern occurs in the lowercased
\* description, whatever the other rules of the category did; so "megaways"
\* in any letter case lists Megaways under the basic layout, and "free spin"
\* together with "buy feature" lists both labels under the bonus features.
RulesAreIndependent ==
  called = "analyze_game_features" =>
    LET desc == Lower(args.description)
    IN  /\ \A r \in Range(FeatureRuleTable) :
             (r.label \in LabelsOf(ret, r.section)) <=> RuleFires(r, desc)
        /\ Contains(W_megaways, desc) => "Megaways" \in LabelsOf(ret, "basic layout")
        /\ Contains(W_free_spin, desc) /\ Contains(W_buy_feature, desc) =>
             {"free spins", "buy feature"} \subseteq LabelsOf(ret, "bonus features")

\* a description in mixed case with "megaways", "free spin" and "buy feature":
\* the basic layout lists Megaways and the bonus features list both labels
RulesAreIndependentWitness ==
  /\ called = "analyze_game_features"
  /\ args.description # Lower(args.description)
  /\ Contains(W_megaways, Lower(args.description))
  /\ ~Contains(W_megaways, args.description)
  /\ Contains(W_free_spin, Lower(args.description))
  /\ Contains(W_buy_feature, Lower(args.description))
  /\ "Megaways" \in LabelsOf(ret, "basic layout")
  /\ {"free spins", "buy feature"} \subseteq LabelsOf(ret, "bonus features")

\* the rules of a section that fire, in the order of the table
FiredLabels(section, desc) ==
  LET fired == SelectSeq(FeatureRuleTable, LAMBDA r : r.section = section /\ RuleFires(r, desc))
  IN  [i \in 1..Len(fired) |-> fired[i].label]

\* C7: the output of analyze_game_features holds exactly the categories with
\* a detected feature, each once, in the order basic layout, win mechanics,
\* bonus features, the entries of a category in the order of the rules; no
\* category is listed empty, and the could-not-parse sentinel is returned
\* exactly when no trigger pattern occurs in the description.
CategoriesOrderedNeverEmpty ==
  called = "analyze_game_features" =>
    LET desc == Lower(args.description)
        expected == SelectSeq(SectionOrder, LAMBDA sec : FiredLabels(sec, desc) # <<>>)
    IN  /\ [i \in 1..Len(ret.sections) |-> ret.sections[i].section] = expected
        /\ \A i \in 1..Len(ret.sections) :
             /\ ret.sections[i].items # <<>>
             /\ [j \in 1..Len(ret.sections[i].items) |-> ret.sections[i].items[j].label]
                  = FiredLabels(ret.sections[i].section, desc)
        /\ (ret.kind = "sentinel") <=> (\A r \in Range(FeatureRuleTable) : ~RuleFires(r, desc))
        /\ ret.kind \in {"summary", "sentinel"}
        /\ ret.kind = "sentinel" => ret.sections = <<>>

\* a summary that leaves the win mechanics out between the two other
\* categories, the basic layout holding two entries in rule order
CategoriesOrderedNeverEmptyWitness ==
  /\ called = "analyze_game_features"
  /\ ret.kind = "summary"
  /\ Len(ret.sections) = 2
  /\ ret.sections[1].section = "basic layout"
  /\ ret.sections[2].section = "bonus features"
  /\ Len(ret.sections[1].items) = 2
  /\ ret.sections[1].items[1].label = "grid"
  /\ ~(\E w \in {W_tumble, W_cascade, W_expanding_symbol, W_sticky, W_walking_wild} :
         Contains(w, Lower(args.description)))

---------------------------------------------------------------------------
(* Properties of advanced_analyze_game                                     *)

\* digits, blanks, then the word
OccursDigitsGapWord(word, s) ==
  \E i \in 1..Len(s), j \in 1..Len(s) :
    /\ i < j
    /\ IsDigit(s[i])
    /\ \A m \in (i+1)..(j-1) : IsSpace(s[m])
    /\ StartsAt(word, s, j)

\* digits, blanks, "x", blanks, digits
OccursSpacedGrid(s) ==
  \E i \in 1..Len(s), j \in 1..Len(s), k \in 1..Len(s) :
    /\ i < j /\ j < k
    /\ IsDigit(s[i]) /\ s[j] = "x" /\ IsDigit(s[k])
    /\ \A m \in ((i+1)..(j-1)) \cup ((j+1)..(k-1)) : IsSpace(s[m])

\* pattern k of category c matches desc: its text is in desc, or it is found
\* as a regular expression
PatternMatches(c, k, desc) ==
  LET p == GAME_FEATURE_RULES[c].patterns[k]
  IN  \/ Contains(p.text, desc)
      \/ CASE p.text = W_re_grid -> OccursSpacedGrid(desc)
           [] p.text = W_re_reels -> OccursDigitsGapWord(W_reel, desc)
           [] p.text = W_re_rows -> OccursDigitsGapWord(W_row, desc)
           [] p.text = W_re_free_spins -> Contains(W_free_spin, desc)
           [] OTHER -> FALSE

MatchingPatterns(c, desc) ==
  { k \in DOMAIN GAME_FEATURE_RULES[c].patterns : PatternMatches(c, k, desc) }

Least(S) == CHOOSE k \in S : \A m \in S : k <= m

\* C8: advanced_analyze_game is first-match-wins per category: at most one
\* line per category, the categories in declared order, the line of a
\* category naming the first pattern in declared order that matches the
\* lowercased description; the sentinel is returned exactly when no pattern
\* of any category matches.
FirstMatchWinsPerCategory ==
  called = "advanced_analyze_game" =>
    LET desc == Lower(args.description)
        hit == SelectSeq([c \in DOMAIN GAME_FEATURE_RULES |-> c],
                         LAMBDA c : MatchingPatterns(c, desc) # {})
    IN  /\ Len(ret.lines) = Len(hit)
        /\ \A i \in 1..Len(hit) :
             /\ ret.lines[i].category = GAME_FEATURE_RULES[hit[i]].category
             /\ ret.lines[i].pattern =
                  GAME_FEATURE_RULES[hit[i]].patterns[Least(MatchingPatterns(hit[i], desc))].text
        /\ \A i, j \in 1..Len(ret.lines) :
             ret.lines[i].category = ret.lines[j].category => i = j
        /\ (ret.kind = "sentinel") <=> (hit = <<>>)
        /\ ret.kind \in {"analysis", "sentinel"}

\* "ways to win" stands in the text before "megaways" and both match: the one
\* line of the pay style names megaways, the pattern declared first
FirstMatchWinsPerCategoryWitness ==
  /\ called = "advanced_analyze_game"
  /\ {2, 3} \subseteq MatchingPatterns(2, Lower(args.description))
  /\ \E n \in 1..Len(ret.lines) :
       /\ ret.lines[n].category = "pay style"
       /\ ret.lines[n].pattern = W_megaways
  /\ \E i \in 1..Len(args.description) :
       /\ StartsAt(W_ways_to_win, Lower(args.description), i)
       /\ \A m \in 1..i : ~StartsAt(W_megaways, Lower(args.description), m)

---------------------------------------------------------------------------
(* Properties of the lookups                                               *)

\* the keyword, case folded on both sides, is a literal substring of text
LiteralCI(keyword, text) == Contains(Lower(keyword), Lower(text))

\* the rows of a frame whose name field holds the keyword
NameMatches(df, column, keyword) ==
  SelectSeq(df.rows, LAMBDA row : LiteralCI(keyword, Str(row[column])))

UrlsOf(rows) == [i \in 1..Len(rows) |-> Str(RowUrl(rows[i]))]

Min(a, b) == IF a < b THEN a ELSE b

\* C1: search_game filters demoslot (on game_name) only when bigwinboard (on
\* Title) yields no match, returns the not-found value exactly when neither
\* frame holds a matching record, and never mixes records of the two frames
\* in one result.
FallbackOnlyWhenPrimaryEmpty ==
  called = "search_game" =>
    LET primary == NameMatches(bigwinboard_df, "Title", args.keyword)
        secondary == NameMatches(demoslot_df, "game_name", args.keyword)
    IN  /\ "demoslot" \in Range(consulted) => primary = <<>>
        /\ (ret.kind = "not_found") <=> (primary = <<>> /\ secondary = <<>>)
        /\ \/ \A i \in 1..Len(ret.messages) :
                ret.messages[i].url \in Range(UrlsOf(bigwinboard_df.rows))
           \/ \A i \in 1..Len(ret.messages) :
                ret.messages[i].url \in Range(UrlsOf(demoslot_df.rows))

\* C2: for every keyword and max_results >= 0 search_game reports exactly the
\* first min(max_results, number of matches) matching records of the chosen
\* frame in the order of the frame; the empty keyword matches every record.
ReportsFirstMatchesInOrder ==
  called = "search_game" =>
    LET primary == NameMatches(bigwinboard_df, "Title", args.keyword)
        secondary == NameMatches(demoslot_df, "game_name", args.keyword)
        chosen == IF primary # <<>> THEN primary ELSE secondary
    IN  /\ args.keyword = <<>> => chosen \in {bigwinboard_df.rows, demoslot_df.rows}
        /\ IF chosen = <<>> THEN ret.kind = "not_found"
           ELSE /\ ret.kind = "reply"
                /\ UrlsOf(SubSeq(chosen, 1, Min(args.max_results, Len(chosen))))
                     = [i \in 1..Len(ret.messages) |-> ret.messages[i].url]

\* C3: a record matches in search_game exactly when the case-folded keyword
\* is a literal substring of its case-folded name, so keywords that differ
\* in letter case alone give the same result and no character of the keyword
\* acts as a pattern operator.
KeywordIsLiteralSubstring ==
  called = "search_game" =>
    /\ ret.kind = "reply" =>
         \A i \in 1..Len(ret.messages) : LiteralCI(args.keyword, ret.messages[i].name)
    /\ ret.kind = "not_found" =>
         /\ NameMatches(bigwinboard_df, "Title", args.keyword) = <<>>
         /\ NameMatches(demoslot_df, "game_name", args.keyword) = <<>>
    /\ \A other \in Keywords :
         Lower(other) = Lower(args.keyword) => search_game(other, args.max_results) = ret

\* C4: for every keyword search_game and search_by_feature end with a value,
\* a list of entries or the not-found value, never with an exception.
LookupsNeverRaise ==
  called \in {"search_game", "search_by_feature"} => ret.kind \in {"reply", "not_found"}

\* the rows of both frames that stand behind a reported url
RowsBehind(url) ==
  { row \in Range(bigwinboard_df.rows) \cup Range(demoslot_df.rows) : Str(RowUrl(row)) = url }

\* the description of the record is missing: no such column, or a null cell
DescMissing(row) == RowDesc(row) \in {NaN, <<>>}

\* C5: the extraction step of search_game never raises on a matched record,
\* one without a description included: the missing description counts as the
\* empty string and each extractor returns its no-features sentinel.
ExtractionNeverRaises ==
  called = "search_game" =>
    /\ ~(ret.kind = "raise" /\ ret.exc = "TypeError")
    /\ \A i \in 1..Len(ret.messages) :
         (\E row \in RowsBehind(ret.messages[i].url) : DescMissing(row)) =>
           /\ ret.messages[i].short_desc = <<>>
           /\ ret.messages[i].feature_summary.kind = "sentinel"
           /\ ret.messages[i].game_summary.kind = "sentinel"
           /\ ret.messages[i].advanced_features.kind = "sentinel"

\* the record's own description, the empty string when it has none
OwnDesc(row) ==
  LET upper == Get(row, "Description", NaN)
      lower == Get(row, "description", NaN)
  IN  IF upper # NaN THEN upper ELSE IF lower # NaN THEN lower ELSE <<>>

\* the entry of a row of the merged view
EntryOf(row) == [name |-> Str(RowName(row)), url |-> Str(RowUrl(row))]

\* C9: search_by_feature lists the records whose own description holds the
\* keyword (never the name, never a placeholder of a missing cell), from all
\* bigwinboard rows followed by all demoslot rows, the first
\* min(10, number of matches) of them; demoslot records are matched on their
\* description like bigwinboard records.
FeatureSearchMatchesOwnDescription ==
  called = "search_by_feature" =>
    LET merged == Concat(bigwinboard_df, demoslot_df).rows
        matching == SelectSeq(merged, LAMBDA row : LiteralCI(args.keyword, OwnDesc(row)))
        first == SubSeq(matching, 1, Min(FeatureCap, Len(matching)))
    IN  /\ Len(ret.messages) <= FeatureCap
        /\ (ret.kind = "not_found") <=> (matching = <<>>)
        /\ ret.messages = [i \in 1..Len(first) |-> EntryOf(first[i])]

\* the name a reply shows for a record: Title, else game_name, else the
\* unknown-game sentinel
ShownName(row) ==
  IF Get(row, "Title", NaN) # NaN THEN row["Title"]
  ELSE IF Get(row, "game_name", NaN) # NaN THEN row["game_name"]
  ELSE W_unknown_game

\* the rows search_by_feature lists, in order
ListedRows ==
  LET merged == Concat(bigwinboard_df, demoslot_df).rows
      listed == SelectSeq(merged, LAMBDA row : Contains(Lower(args.keyword), FeatureDesc(row)))
  IN  SubSeq(listed, 1, Min(FeatureCap, Len(listed)))

\* C10: the name shown in an entry of search_game or search_by_feature is
\* never a null: it is the Title when present, else the game_name, else the
\* unknown-game sentinel, for the records of both frames, the demoslot rows
\* of the merged view included.
ShownNameIsNeverNull ==
  /\ called = "search_game" =>
       \A i \in 1..Len(ret.messages) :
         \E row \in RowsBehind(ret.messages[i].url) : ret.messages[i].name = ShownName(row)
  /\ called = "search_by_feature" =>
       /\ Len(ret.messages) = Len(ListedRows)
       /\ \A i \in 1..Len(ret.messages) : ret.messages[i].name = ShownName(ListedRows[i])

====
